---- MODULE Spec2Model ----
(***************************************************************************)
(* scripts/fix_json_tags.py: rewrites the snake_case names in json:"..."   *)
(* struct tags of internal/models/*.go to camelCase.                       *)
(*                                                                         *)
(* Texts are TLA+ strings, handled character by character (Len, SubSeq and *)
(* \o on strings), so the regular expression, str.replace and the          *)
(* dictionary lookup are computed as Python computes them.                 *)
(*                                                                         *)
(* Two state machines share the module:                                    *)
(*   RewriteSpec  applies fix_json_tags to a text and then to its result;  *)
(*   Spec         is main(): glob, sort, then per file read, transform,    *)
(*                compare, write, with read and write failures.            *)
(*   FairSpec     is Spec with the progress a sequential program has.      *)
(***************************************************************************)
EXTENDS Integers, Sequences, FiniteSets, TLC

VARIABLES
    text,            \* harness: the text handed to fix_json_tags
    parts,           \* harness: the pieces text was assembled from
    once,            \* harness: fix_json_tags(text)
    twice,           \* harness: fix_json_tags(once)
    step,            \* harness: "input", "once", "twice" ("off" in main's runs)
    fs,              \* main: path -> content of internal/models/*.go
    fs0,             \* main: the file contents before the run
    pc,              \* main: position in main()
    go_files,        \* main: the list glob.glob returned
    queue,           \* main: sorted(go_files), the list the for loop walks
    idx,             \* main: position of the loop in queue
    content,         \* main: local `content`
    new_content,     \* main: local `new_content`
    updated_count,   \* main: local `updated_count`
    skipped_count,   \* main: local `skipped_count`
    io,              \* main: the open() calls made so far, in order
    exit_code        \* main: the process's exit status (-1 while running)

rewriteVars == <<text, parts, once, twice, step>>
mainVars == <<fs, fs0, pc, go_files, queue, idx, content, new_content,
              updated_count, skipped_count, io, exit_code>>
vars == <<text, parts, once, twice, step, fs, fs0, pc, go_files, queue, idx,
          content, new_content, updated_count, skipped_count, io, exit_code>>

(***************************************************************************)
(* Bounds of the model.                                                    *)
(***************************************************************************)
MaxParts == 3
MaxValuePieces == 3
MaxFiles == 3

(***************************************************************************)
(* The rename table (lines 15-97).                                         *)
(***************************************************************************)
\* A table in which a replacement value ("agentId") is itself a key: the edit
\* the idempotence of the rewrite does not survive.
replacements_collision ==
    "agent_id" :> "agentId" @@ "agentId" :> "agent_id" @@ "created_at" :> "createdAt"

replacements ==
    "agent_id" :> "agentId"
 @@ "allowed_ip_ranges" :> "allowedIpRanges"
 @@ "assigned_to" :> "assignedTo"
 @@ "auto_resolution_strategy" :> "autoResolutionStrategy"
 @@ "auto_resolution_winner" :> "autoResolutionWinner"
 @@ "avg_latency_ms" :> "avgLatencyMs"
 @@ "carrier_id" :> "carrierId"
 @@ "config_json" :> "configJson"
 @@ "conflict_type" :> "conflictType"
 @@ "country_id" :> "countryId"
 @@ "created_at" :> "createdAt"
 @@ "delivered_at" :> "deliveredAt"
 @@ "denied_params" :> "deniedParams"
 @@ "device_id" :> "deviceId"
 @@ "error_message" :> "errorMessage"
 @@ "entity_type" :> "entityType"
 @@ "entity_id" :> "entityId"
 @@ "execution_time_ms" :> "executionTimeMs"
 @@ "failed_login_attempts" :> "failedLoginAttempts"
 @@ "function_name" :> "functionName"
 @@ "is_active" :> "isActive"
 @@ "is_company" :> "isCompany"
 @@ "is_enabled" :> "isEnabled"
 @@ "is_refund_requested" :> "isRefundRequested"
 @@ "is_verified" :> "isVerified"
 @@ "item_id" :> "itemId"
 @@ "last_activity_at" :> "lastActivityAt"
 @@ "last_failure_at" :> "lastFailureAt"
 @@ "last_full_sync_at" :> "lastFullSyncAt"
 @@ "last_login" :> "lastLogin"
 @@ "last_request_at" :> "lastRequestAt"
 @@ "last_seen_at" :> "lastSeenAt"
 @@ "last_success_at" :> "lastSuccessAt"
 @@ "last_sync_at" :> "lastSyncAt"
 @@ "last_sync_status" :> "lastSyncStatus"
 @@ "last_synced_at" :> "lastSyncedAt"
 @@ "last_updated" :> "lastUpdated"
 @@ "location_dest_id" :> "locationDestId"
 @@ "location_id" :> "locationId"
 @@ "lot_id" :> "lotId"
 @@ "max_rate_per_min" :> "maxRatePerMin"
 @@ "max_tokens_per_day" :> "maxTokensPerDay"
 @@ "mapped_location_id" :> "mappedLocationId"
 @@ "picking_delivery_id" :> "pickingDeliveryId"
 @@ "picking_id" :> "pickingId"
 @@ "picking_type_id" :> "pickingTypeId"
 @@ "package_type_id" :> "packageTypeId"
 @@ "package_id" :> "packageId"
 @@ "partner_id" :> "partnerId"
 @@ "preferred_language" :> "preferredLanguage"
 @@ "product_id" :> "productId"
 @@ "records_conflicts" :> "recordsConflicts"
 @@ "records_synced" :> "recordsSynced"
 @@ "remote_data" :> "remoteData"
 @@ "remote_metadata" :> "remoteMetadata"
 @@ "request_data" :> "requestData"
 @@ "require_approval" :> "requireApproval"
 @@ "resolved_by" :> "resolvedBy"
 @@ "resolved_at" :> "resolvedAt"
 @@ "response_data" :> "responseData"
 @@ "result_package_id" :> "resultPackageId"
 @@ "retry_count" :> "retryCount"
 @@ "rma_number" :> "rmaNumber"
 @@ "rma_reason" :> "rmaReason"
 @@ "rma_request_id" :> "rmaRequestId"
 @@ "scheduled_at" :> "scheduledAt"
 @@ "scheduled_date" :> "scheduledDate"
 @@ "shipped_at" :> "shippedAt"
 @@ "sort_order" :> "sortOrder"
 @@ "source_instance" :> "sourceInstance"
 @@ "started_at" :> "startedAt"
 @@ "completed_at" :> "completedAt"
 @@ "status_code" :> "statusCode"
 @@ "sync_duration_ms" :> "syncDurationMs"
 @@ "target_instance" :> "targetInstance"
 @@ "technician_id" :> "technicianId"
 @@ "total_tokens_used" :> "totalTokensUsed"
 @@ "tracking_number" :> "trackingNumber"
 @@ "updated_at" :> "updatedAt"
 @@ "warehouse_id" :> "warehouseId"
 @@ "window_start" :> "windowStart"

(***************************************************************************)
(* Python string primitives.                                               *)
(***************************************************************************)
\* s[i:j] with 1-based inclusive bounds; "" when the slice is empty.
Slice(s, i, j) == IF i > j \/ i < 1 \/ j > Len(s) THEN "" ELSE SubSeq(s, i, j)

\* s.startswith(p, i-1)
StartsAt(s, p, i) == i >= 1 /\ i + Len(p) - 1 <= Len(s) /\ SubSeq(s, i, i + Len(p) - 1) = p

\* s.find(p, from-1) + 1: the least index >= from where p occurs, 0 if none.
RECURSIVE Find(_, _, _)
Find(s, p, from) ==
    IF from + Len(p) - 1 > Len(s) THEN 0
    ELSE IF StartsAt(s, p, from) THEN from
    ELSE Find(s, p, from + 1)

\* `p in s`
Contains(s, p) == Find(s, p, 1) # 0

\* s.replace(old, new): every non-overlapping occurrence, left to right.
RECURSIVE StrReplace(_, _, _)
StrReplace(s, old, new) ==
    LET p == Find(s, old, 1) IN
    IF p = 0 THEN s
    ELSE Slice(s, 1, p - 1) \o new \o StrReplace(Slice(s, p + Len(old), Len(s)), old, new)

(***************************************************************************)
(* fix_json_tags (lines 100-124).                                          *)
(***************************************************************************)
TagOpen == "json:\""
Quote == "\""
Marker == ",omitempty"

NoMatch == [whole |-> "", group1 |-> ""]

\* The match of json:"([^"]*)" that starts at position p of s, NoMatch if the
\* pattern does not match there: json:" at p, then the characters up to the
\* first quote after it, then that quote.
\* The pattern without its closing quote, json:"([^"]*) : a tag that is never
\* closed matches too.
Match_unclosed(s, p) ==
    LET q == Find(s, Quote, p + Len(TagOpen))
        e == IF q = 0 THEN Len(s) ELSE q - 1
    IN  IF ~StartsAt(s, TagOpen, p) THEN NoMatch
        ELSE [whole |-> Slice(s, p, e), group1 |-> Slice(s, p + Len(TagOpen), e)]

Match(s, p) ==
    LET q == Find(s, Quote, p + Len(TagOpen)) IN
    IF ~StartsAt(s, TagOpen, p) \/ q = 0 THEN NoMatch
    ELSE [whole |-> Slice(s, p, q), group1 |-> Slice(s, p + Len(TagOpen), q - 1)]

\* replace_tag that rebuilds the tag around base_value instead of new_value.
replace_tag_keeps_key(match) ==
    LET old_value == match.group1
        has_opt == Contains(old_value, Marker)
        base_value == IF has_opt THEN StrReplace(old_value, Marker, "") ELSE old_value
        options == IF has_opt THEN Marker ELSE ""
    IN  IF base_value \in DOMAIN replacements
        THEN TagOpen \o base_value \o options \o Quote
        ELSE match.whole

\* replace_tag (lines 106-122): match.group(1) is split into base_value and
\* options, base_value is looked up, the tag is rebuilt.
replace_tag(match) ==
    LET old_value == match.group1
        has_opt == Contains(old_value, Marker)
        base_value == IF has_opt THEN StrReplace(old_value, Marker, "") ELSE old_value
        options == IF has_opt THEN Marker ELSE ""
    IN  IF base_value \in DOMAIN replacements
        THEN TagOpen \o replacements[base_value] \o options \o Quote
        ELSE match.whole

\* The leftmost position >= from where the pattern matches, 0 if none.
RECURSIVE NextMatch(_, _)
NextMatch(s, from) ==
    LET p == Find(s, TagOpen, from) IN
    IF p = 0 THEN 0
    ELSE IF Match(s, p) # NoMatch THEN p
    ELSE NextMatch(s, p + 1)

\* re.sub with count=1: only the leftmost match is replaced.
ReSub_first_only(s, from) ==
    LET p == NextMatch(s, from) IN
    IF p = 0 THEN Slice(s, from, Len(s))
    ELSE LET m == Match(s, p) IN
         Slice(s, from, p - 1) \o replace_tag(m) \o Slice(s, p + Len(m.whole), Len(s))

\* re.sub(pattern, replace_tag, s) from position `from` on (line 124): the
\* text before the leftmost match, the replacement of the match, then the
\* same from the first position after the match.
RECURSIVE ReSub(_, _)
ReSub(s, from) ==
    LET p == NextMatch(s, from) IN
    IF p = 0 THEN Slice(s, from, Len(s))
    ELSE LET m == Match(s, p) IN
         Slice(s, from, p - 1) \o replace_tag(m) \o ReSub(s, p + Len(m.whole))

fix_json_tags(c) == ReSub(c, 1)

(***************************************************************************)
(* The texts fix_json_tags is applied to.                                  *)
(***************************************************************************)
Keys == DOMAIN replacements
NewNames == {replacements[k] : k \in Keys}

RECURSIVE Concat(_)
Concat(ps) == IF ps = <<>> THEN "" ELSE Head(ps) \o Concat(Tail(ps))

RECURSIVE SeqsUpTo(_, _)
SeqsUpTo(S, n) ==
    IF n = 0 THEN {<<>>}
    ELSE LET shorter == SeqsUpTo(S, n - 1) IN
         shorter \cup {Append(q, x) : q \in shorter, x \in S}

Tag(v) == TagOpen \o v \o Quote

\* Pieces of annotation values: keys, a key in two halves, a new name, a name
\* the table does not know, the option marker, another option.
ValuePieces == {"agent_id", "created_at", "created", "_at", "agentId", "name",
                Marker, ",string"}
Values == {Concat(q) : q \in SeqsUpTo(ValuePieces, MaxValuePieces)}
            \cup Keys \cup NewNames \cup {k \o Marker : k \in Keys}
            \cup {"unknown_field", "unknown_field" \o Marker}

\* Pieces of texts: whole annotations, text between them, and broken tags.
Annotations == {Tag("agent_id"), Tag("device_id" \o Marker), Tag("name"), Tag("agentId")}
Gaps == {" ", "id:"}
Broken == {TagOpen, Quote, TagOpen \o "created_at"}
TextPieces == Annotations \cup Gaps \cup Broken

Inputs == SeqsUpTo(TextPieces, MaxParts) \cup {<<Tag(v)>> : v \in Values}

(***************************************************************************)
(* RewriteSpec: fix_json_tags applied to a text, then to its own result.   *)
(***************************************************************************)
MainIdle ==
    /\ fs = <<>> /\ fs0 = <<>> /\ pc = "idle" /\ go_files = <<>> /\ queue = <<>>
    /\ idx = 0 /\ content = "" /\ new_content = ""
    /\ updated_count = 0 /\ skipped_count = 0 /\ io = <<>> /\ exit_code = -1

RewriteInit ==
    /\ parts \in Inputs
    /\ text = Concat(parts)
    /\ once = "" /\ twice = ""
    /\ step = "input"
    /\ MainIdle

Rewrite ==
    /\ step = "input"
    /\ once' = fix_json_tags(text)
    /\ step' = "once"
    /\ UNCHANGED <<text, parts, twice>>
    /\ UNCHANGED mainVars

RewriteAgain ==
    /\ step = "once"
    /\ twice' = fix_json_tags(once)
    /\ step' = "twice"
    /\ UNCHANGED <<text, parts, once>>
    /\ UNCHANGED mainVars

RewriteNext == Rewrite \/ RewriteAgain

RewriteSpec == RewriteInit /\ [][RewriteNext]_vars

(***************************************************************************)
(* main (lines 127-165).  Paths are numbered; the order of the numbers is  *)
(* the order sorted() gives the path strings.                              *)
(***************************************************************************)
Paths == 1..MaxFiles

\* Contents of the .go files: a tag to rename, a tag already renamed (the
\* file needs no change), and two tags of which one is renamed.
FileTexts == {Tag("agent_id"), Tag("agentId"),
              Tag("created_at" \o Marker) \o " " \o Tag("name")}

\* fix_json_tags is a pure function of the text: its value on every file
\* content of the model, computed once.
Rewritten == [t \in FileTexts |-> fix_json_tags(t)]

FileSystems == UNION {[S -> FileTexts] : S \in SUBSET Paths}

\* The lists glob.glob may return for a set of paths: any order (line 132).
GlobResults(S) ==
    {q \in SeqsUpTo(S, Cardinality(S)) :
        Len(q) = Cardinality(S) /\ {q[i] : i \in 1..Len(q)} = S}

\* main without the check of line 134.
NoFiles_never(gf) == FALSE

\* `not go_files` (line 134)
NoFiles(gf) == gf = <<>>

\* The loop walking go_files as glob returned it.
sorted_as_globbed(gf) == gf

\* sorted(go_files) (line 141)
sorted(gf) == SortSeq(gf, LAMBDA a, b : a < b)

\* main writing every file back, changed or not.
Differs_always(a, b) == TRUE

\* `new_content != content` (line 148)
Differs(a, b) == a # b

\* An except clause that reports and goes on with the next file.
OnException_continue(i) == [pc |-> "loop", idx |-> i + 1, exit_code |-> -1]

\* The except clause (lines 157-159): report, then sys.exit(1).  The value
\* is the position the run continues from.
OnException(i) == [pc |-> "exit", idx |-> i, exit_code |-> 1]

\* What a file can hold after a write that raised: its old content (open
\* failed) or a prefix of the new content (open truncated it, the write or
\* the close failed).
AfterFailedWrite(old, new) == {old} \cup {Slice(new, 1, n) : n \in 0..Len(new)}

RewriteOff ==
    text = "" /\ parts = <<>> /\ once = "" /\ twice = "" /\ step = "off"

Init ==
    /\ fs \in FileSystems
    /\ fs0 = fs
    /\ pc = "start"
    /\ go_files = <<>> /\ queue = <<>> /\ idx = 1
    /\ content = "" /\ new_content = ""
    /\ updated_count = 0 /\ skipped_count = 0
    /\ io = <<>>
    /\ exit_code = -1
    /\ RewriteOff

\* line 132
Glob ==
    /\ pc = "start"
    /\ go_files' \in GlobResults(DOMAIN fs)
    /\ pc' = "check"
    /\ UNCHANGED <<fs, fs0, queue, idx, content, new_content, updated_count,
                   skipped_count, io, exit_code>>
    /\ UNCHANGED rewriteVars

\* lines 134-141: no file found: exit 1; otherwise the counters are zeroed
\* and the loop starts on the sorted list.
CheckFiles ==
    /\ pc = "check"
    /\ IF NoFiles(go_files)
       THEN /\ pc' = "exit"
            /\ exit_code' = 1
            /\ UNCHANGED <<queue, idx, updated_count, skipped_count>>
       ELSE /\ pc' = "loop"
            /\ queue' = sorted(go_files)
            /\ idx' = 1
            /\ updated_count' = 0
            /\ skipped_count' = 0
            /\ UNCHANGED exit_code
    /\ UNCHANGED <<fs, fs0, go_files, content, new_content, io>>
    /\ UNCHANGED rewriteVars

\* line 141: the next file, or the end of the loop.
LoopNext ==
    /\ pc = "loop"
    /\ pc' = IF idx <= Len(queue) THEN "read" ELSE "summary"
    /\ UNCHANGED <<fs, fs0, go_files, queue, idx, content, new_content,
                   updated_count, skipped_count, io, exit_code>>
    /\ UNCHANGED rewriteVars

\* lines 143-144
ReadOk ==
    /\ pc = "read"
    /\ content' = fs[queue[idx]]
    /\ io' = Append(io, [op |-> "r", path |-> queue[idx], ok |-> TRUE])
    /\ pc' = "transform"
    /\ UNCHANGED <<fs, fs0, go_files, queue, idx, new_content, updated_count,
                   skipped_count, exit_code>>
    /\ UNCHANGED rewriteVars

\* lines 143-144 raise (the file cannot be opened or decoded), lines 157-159.
ReadFail ==
    /\ pc = "read"
    /\ io' = Append(io, [op |-> "r", path |-> queue[idx], ok |-> FALSE])
    /\ pc' = OnException(idx).pc
    /\ idx' = OnException(idx).idx
    /\ exit_code' = OnException(idx).exit_code
    /\ UNCHANGED <<fs, fs0, go_files, queue, content, new_content,
                   updated_count, skipped_count>>
    /\ UNCHANGED rewriteVars

\* line 146: new_content = fix_json_tags(content)
Transform ==
    /\ pc = "transform"
    /\ new_content' = Rewritten[content]
    /\ pc' = "compare"
    /\ UNCHANGED <<fs, fs0, go_files, queue, idx, content, updated_count,
                   skipped_count, io, exit_code>>
    /\ UNCHANGED rewriteVars

\* lines 148, 153-155
Compare ==
    /\ pc = "compare"
    /\ IF Differs(new_content, content)
       THEN /\ pc' = "write"
            /\ UNCHANGED <<idx, skipped_count>>
       ELSE /\ skipped_count' = skipped_count + 1
            /\ idx' = idx + 1
            /\ pc' = "loop"
    /\ UNCHANGED <<fs, fs0, go_files, queue, content, new_content,
                   updated_count, io, exit_code>>
    /\ UNCHANGED rewriteVars

\* lines 149-152
WriteOk ==
    /\ pc = "write"
    /\ fs' = [fs EXCEPT ![queue[idx]] = new_content]
    /\ io' = Append(io, [op |-> "w", path |-> queue[idx], ok |-> TRUE])
    /\ updated_count' = updated_count + 1
    /\ idx' = idx + 1
    /\ pc' = "loop"
    /\ UNCHANGED <<fs0, go_files, queue, content, new_content, skipped_count,
                   exit_code>>
    /\ UNCHANGED rewriteVars

\* lines 149-150 raise, lines 157-159.
WriteFail ==
    /\ pc = "write"
    /\ \E left \in AfterFailedWrite(fs[queue[idx]], new_content) :
           fs' = [fs EXCEPT ![queue[idx]] = left]
    /\ io' = Append(io, [op |-> "w", path |-> queue[idx], ok |-> FALSE])
    /\ pc' = OnException(idx).pc
    /\ idx' = OnException(idx).idx
    /\ exit_code' = OnException(idx).exit_code
    /\ UNCHANGED <<fs0, go_files, queue, content, new_content, updated_count,
                   skipped_count>>
    /\ UNCHANGED rewriteVars

\* lines 161-164, then the script ends: exit status 0.
Finish ==
    /\ pc = "summary"
    /\ pc' = "exit"
    /\ exit_code' = 0
    /\ UNCHANGED <<fs, fs0, go_files, queue, idx, content, new_content,
                   updated_count, skipped_count, io>>
    /\ UNCHANGED rewriteVars

Next ==
    \/ Glob
    \/ CheckFiles
    \/ LoopNext
    \/ ReadOk
    \/ ReadFail
    \/ Transform
    \/ Compare
    \/ WriteOk
    \/ WriteFail
    \/ Finish

Spec == Init /\ [][Next]_vars

\* main is one sequential thread: while a statement remains, it is executed.
FairSpec == Init /\ [][Next]_vars /\ WF_vars(Next)

(***************************************************************************)
(* Properties of fix_json_tags, checked under RewriteSpec.                 *)
(***************************************************************************)

\* C1: for every key `base` of the rename table, fix_json_tags of the text
\* json:"<base>" is json:"<replacements[base]>", and it differs from the
\* input.
C1_KnownKeyRenamed ==
    step # "input" =>
        \A k \in Keys :
            text = Tag(k) => once = Tag(replacements[k]) /\ once # text

C1_Witness ==
    step = "once" /\ text = Tag("window_start") /\ once = Tag("windowStart")

\* The base identifier and the option suffix of an annotation value as the
\* specification defines them: the suffix is the part of the value that starts
\* at the ,omitempty marker (empty when the marker is absent), the base is
\* what precedes it.
SuffixStart(v) == Find(v, Marker, 1)
SpecBase(v) == IF SuffixStart(v) = 0 THEN v ELSE Slice(v, 1, SuffixStart(v) - 1)
SpecSuffix(v) == IF SuffixStart(v) = 0 THEN "" ELSE Slice(v, SuffixStart(v), Len(v))

\* C2: an annotation whose base identifier (the value with the option suffix
\* split off) is not a key of the rename table is emitted unchanged, option
\* suffix included: the text is returned identical to the input.
C2_UnknownBaseUnchanged ==
    step # "input" =>
        \A v \in Values :
            text = Tag(v) /\ SpecBase(v) \notin Keys => once = text

\* C3: the value of every rewritten annotation is replacements[base] followed
\* by the option suffix of the original value, character for character.
C3_OptionSuffixVerbatim ==
    step # "input" =>
        \A v \in Values :
            text = Tag(v) /\ once # text =>
                /\ SpecBase(v) \in Keys
                /\ once = Tag(replacements[SpecBase(v)] \o SpecSuffix(v))

\* C4: no replacement value of the table is itself a key, and applying
\* fix_json_tags to its own result changes nothing.
C4_Idempotent ==
    /\ \A k \in Keys : replacements[k] \notin Keys
    /\ step = "twice" => twice = once

C4_Witness ==
    /\ step = "twice"
    /\ text = Tag("agent_id") \o " " \o Tag("device_id" \o Marker)
    /\ once = Tag("agentId") \o " " \o Tag("deviceId" \o Marker)
    /\ twice = once

\* C5: in a text made of whole annotations and of stretches without a quote
\* between them, each annotation is rewritten as it is rewritten alone
\* and the stretches between them are kept, in the same order.
Alone(piece) == IF piece \in Annotations THEN fix_json_tags(piece) ELSE piece

RECURSIVE PieceByPiece(_)
PieceByPiece(ps) ==
    IF ps = <<>> THEN "" ELSE Alone(Head(ps)) \o PieceByPiece(Tail(ps))

C5_EachAnnotationIndependently ==
    (step # "input" /\ \A i \in 1..Len(parts) : parts[i] \in Annotations \cup Gaps)
        => once = PieceByPiece(parts)

C5_Witness ==
    /\ step = "once"
    /\ parts = <<Tag("agent_id"), " ", Tag("device_id" \o Marker)>>
    /\ once = Tag("agentId") \o " " \o Tag("deviceId" \o Marker)

\* C9: where json:" opens a tag and no quote follows it, nothing matches: the
\* text from that position on is kept as it is, and the text before it is
\* rewritten as it is without the broken tag.
Unterminated(s, p) == StartsAt(s, TagOpen, p) /\ Find(s, Quote, p + Len(TagOpen)) = 0

Opened == {io[i].path : i \in 1..Len(io)}
OpenedForWriting == {io[i].path : i \in {j \in 1..Len(io) : io[j].op = "w"}}
Written == {io[i].path : i \in {j \in 1..Len(io) : io[j].op = "w" /\ io[j].ok}}
Failures == {i \in 1..Len(io) : ~io[i].ok}
ReadsOf(log) == [i \in 1..Len(SelectSeq(log, LAMBDA e : e.op = "r")) |->
                    SelectSeq(log, LAMBDA e : e.op = "r")[i].path]

\* C6: with no matching file, main exits with status 1 and never opens a
\* file, for reading or for writing.
C6_NoFilesNoIO ==
    DOMAIN fs0 = {} =>
        /\ io = <<>>
        /\ pc \in {"start", "check", "exit"}
        /\ pc = "exit" => exit_code = 1

C6_Witness == DOMAIN fs0 = {} /\ pc = "exit" /\ exit_code = 1 /\ io = <<>>

\* C7: a failed read or write is the last thing main does on any file: it
\* exits with status 1, the files after the failing one in sorted order are
\* never opened and keep their content, and the files written before it hold
\* their rewritten content.
C7_StopsAtFirstFailure ==
    \A i \in Failures :
        /\ i = Len(io)
        /\ pc = "exit" /\ exit_code = 1
        /\ queue[idx] = io[i].path
        /\ \A j \in (idx + 1)..Len(queue) :
               queue[j] \notin Opened /\ fs[queue[j]] = fs0[queue[j]]
        /\ \A f \in Written : fs[f] = Rewritten[fs0[f]] /\ fs[f] # fs0[f]

C7_Witness ==
    /\ pc = "exit" /\ exit_code = 1
    /\ Len(queue) = 3 /\ idx = 2
    /\ Failures # {}
    /\ Written = {queue[1]}
    /\ fs[queue[1]] = Tag("agentId")
    /\ fs[queue[3]] = fs0[queue[3]]

\* C8: every run ends, and it ends with status 0 only when there were files,
\* none failed, and every matched file was read exactly once, in sorted
\* order, each file written (if at all) right after it was read and before
\* the next one is opened.
AllProcessedInOrder ==
    /\ go_files # <<>>
    /\ Failures = {}
    /\ ReadsOf(io) = SortSeq(go_files, LAMBDA a, b : a < b)
    /\ \A i \in 1..Len(io) :
           io[i].op = "w" => i > 1 /\ io[i - 1] = [op |-> "r", path |-> io[i].path, ok |-> TRUE]

C8_TerminatesAfterAllInOrder ==
    /\ <>(pc = "exit")
    /\ [](pc = "exit" /\ exit_code = 0 => AllProcessedInOrder)

C8_Witness ==
    /\ pc = "exit" /\ exit_code = 0
    /\ go_files = <<3, 1, 2>>
    /\ ReadsOf(io) = <<1, 2, 3>>
    /\ Written # {}

\* C10: a file is opened for writing exactly when its rewritten content
\* differs from what was read, a file that is not written keeps its content,
\* and every processed file is counted once, as updated or as skipped.
Processed == {queue[i] : i \in 1..(idx - 1)}

C10_WrittenIffChanged ==
    /\ \A f \in OpenedForWriting : Rewritten[fs0[f]] # fs0[f]
    /\ \A f \in Processed :
           /\ f \in Written <=> Rewritten[fs0[f]] # fs0[f]
           /\ f \notin Written => fs[f] = fs0[f]
           /\ f \in Written => fs[f] = Rewritten[fs0[f]]
    /\ updated_count = Cardinality(Written)
    /\ updated_count + skipped_count = Cardinality(Processed)
    /\ Cardinality(Processed) = idx - 1
    /\ pc = "exit" /\ exit_code = 0 =>
           updated_count + skipped_count = Len(go_files)

C10_Witness ==
    /\ pc = "exit" /\ exit_code = 0
    /\ updated_count = 2 /\ skipped_count = 1
    /\ \E f \in DOMAIN fs : f \notin OpenedForWriting /\ fs[f] = fs0[f]
    /\ \E f \in Written : fs0[f] = Tag("agent_id") /\ fs[f] = Tag("agentId")

====
